---- MODULE Spec2Model ----
(***************************************************************************)
(* Two-suit Spider Solitaire: the rules engine of spider_solitaire3.py     *)
(* (class SpiderSolitaire with its Deck, Card and WildCard).               *)
(*                                                                         *)
(* A Card object is named by its construction index in Deck.__init__       *)
(* (1..104); its rank and suit follow from that index, and its mutable     *)
(* face_up attribute is the function face_up.  Lists hold references, so a *)
(* card that sits in two lists (a column and a history entry, or, after an *)
(* undo, two piles) is one object with one face_up flag.  A WildCard is    *)
(* written 0: it has rank 0, suit "Wildcard", and is always face up.       *)
(* Indexes into columns are 0-based as in the source.                      *)
(***************************************************************************)
EXTENDS Integers, Sequences, FiniteSets, TLC

VARIABLES
    deck,          \* Deck.cards: the stock, front of the sequence = next card dealt
    columns,       \* SpiderSolitaire.columns: 0..9 -> sequence of cards
    foundations,   \* SpiderSolitaire.foundations: 0..7 -> sequence of cards
    face_up,       \* Card.face_up of every real card
    moves,         \* SpiderSolitaire.moves
    deal_count,    \* SpiderSolitaire.deal_count
    move_history,  \* SpiderSolitaire.move_history
    call,          \* the engine method called last, with its arguments
    ret,           \* what that call returned ("None", "True", "False", a list) or raised
    undos,         \* number of successful undo_last_move calls so far
    trail,         \* piles before each action of the current run of actions
    undone         \* successful undos since the last action

vars == <<deck, columns, foundations, face_up, moves, deal_count, move_history,
          call, ret, undos, trail, undone>>

----------------------------------------------------------------------------
(* Sizes fixed by the source *)

NumRanks == 13
NumSuitSlots == 4
NumDecks == 2
NumColumns == 10
NumFoundations == 8
max_draws == 5
RowSize == 10
ShortPile == 5
LongPile == 6
NumShortPiles == 6

NumCards == NumDecks * NumSuitSlots * NumRanks

(* Bounds of the model *)
MaxMoves == 3
MaxUndos == 3
MaxRunMoves == 5
MaxRunUndos == 1
MaxMoves1 == 12
MaxDeckCalls == 3
MaxSeed == 1

Cols == 0 .. (NumColumns - 1)
Slots == 0 .. (NumFoundations - 1)
Cards == 1 .. NumCards

----------------------------------------------------------------------------
(* Card, WildCard *)

WildCard == 0

IsWildCard(c) == c = WildCard

\* Deck.__init__ appends, for each of the two decks, for each of the four
\* suit slots Spades, Hearts, Spades, Hearts, the ranks 1..13 in order.
Rank(c) == IF IsWildCard(c) THEN 0 ELSE ((c - 1) % NumRanks) + 1

Suit(c) ==
    IF IsWildCard(c) THEN "Wildcard"
    ELSE IF ((c - 1) \div NumRanks) % 2 = 0 THEN "Spades" ELSE "Hearts"

FaceUp(fu, c) == IF IsWildCard(c) THEN TRUE ELSE fu[c]

\* a flip that leaves the card as it lies
NoFlip(fu, c) == fu

\* Card.flip
flip(fu, c) == IF IsWildCard(c) THEN fu ELSE [fu EXCEPT ![c] = ~fu[c]]

Last(s) == s[Len(s)]

\* s[i:] and s[:i] of Python for 0 <= i
From(s, i) == SubSeq(s, i + 1, Len(s))
Upto(s, i) == SubSeq(s, 1, IF i < Len(s) THEN i ELSE Len(s))

Range(s) == {s[i] : i \in 1 .. Len(s)}

----------------------------------------------------------------------------
(* Deck *)

\* a deal that takes the cards from the back of the deck
DealFromBack(cards, num_cards) ==
    IF num_cards > Len(cards)
    THEN [raised |-> TRUE, dealt_cards |-> <<>>, cards |-> cards]
    ELSE [raised |-> FALSE,
          dealt_cards |-> From(cards, Len(cards) - num_cards),
          cards |-> Upto(cards, Len(cards) - num_cards)]

\* a deal that hands over what is left when too few cards remain
DealWhatRemains(cards, num_cards) ==
    LET n == IF num_cards > Len(cards) THEN Len(cards) ELSE num_cards
    IN  [raised |-> FALSE, dealt_cards |-> SubSeq(cards, 1, n), cards |-> From(cards, n)]

\* Deck.deal: the first num_cards cards, or ValueError when too few remain
DeckDeal(cards, num_cards) ==
    IF num_cards > Len(cards)
    THEN [raised |-> TRUE, dealt_cards |-> <<>>, cards |-> cards]
    ELSE [raised |-> FALSE,
          dealt_cards |-> SubSeq(cards, 1, num_cards),
          cards |-> From(cards, num_cards)]

----------------------------------------------------------------------------
(* SpiderSolitaire: queries *)

\* a run detection that keeps the cards before the first break
StopAtFirstBreak(col, start_index, fu) ==
    IF start_index < 0 \/ start_index >= Len(col) THEN <<>>
    ELSE IF ~FaceUp(fu, col[start_index + 1]) THEN <<>>
    ELSE LET sequence == From(col, start_index)
             n == CHOOSE k \in 1 .. Len(sequence) :
                     /\ \A i \in 1 .. (k - 1) :
                           /\ Suit(sequence[i]) = Suit(sequence[i + 1])
                           /\ Rank(sequence[i]) = Rank(sequence[i + 1]) + 1
                     /\ k < Len(sequence) =>
                           \/ Suit(sequence[k]) # Suit(sequence[k + 1])
                           \/ Rank(sequence[k]) # Rank(sequence[k + 1]) + 1
         IN  SubSeq(sequence, 1, n)

\* get_movable_sequence
get_movable_sequence(col, start_index, fu) ==
    IF start_index < 0 \/ start_index >= Len(col) THEN <<>>
    ELSE IF ~FaceUp(fu, col[start_index + 1]) THEN <<>>
    ELSE LET sequence == From(col, start_index)
         IN  IF \E i \in 1 .. (Len(sequence) - 1) :
                    \/ Suit(sequence[i]) # Suit(sequence[i + 1])
                    \/ Rank(sequence[i]) # Rank(sequence[i + 1]) + 1
             THEN <<>>
             ELSE sequence

\* a legality test that also wants the destination's suit
SameSuitCanMove(from_col, card_index, to_col, fu) ==
    IF Len(to_col) > 0 /\ IsWildCard(Last(to_col)) THEN "True"
    ELSE LET movable_sequence == get_movable_sequence(from_col, card_index, fu)
         IN  IF movable_sequence = <<>> THEN "False"
             ELSE IF Len(to_col) = 0 THEN "IndexError"
             ELSE IF /\ Rank(movable_sequence[1]) = Rank(Last(to_col)) - 1
                     /\ Suit(movable_sequence[1]) = Suit(Last(to_col))
                  THEN "True" ELSE "False"

\* can_move_card: "True", "False", or "IndexError" when to_col[-1] is read
\* on an empty list
can_move_card(from_col, card_index, to_col, fu) ==
    IF Len(to_col) > 0 /\ IsWildCard(Last(to_col)) THEN "True"
    ELSE LET movable_sequence == get_movable_sequence(from_col, card_index, fu)
         IN  IF movable_sequence = <<>> THEN "False"
             ELSE IF Len(to_col) = 0 THEN "IndexError"
             ELSE IF Rank(movable_sequence[1]) = Rank(Last(to_col)) - 1
                  THEN "True" ELSE "False"

\* is_full_sequence
is_full_sequence(cards) ==
    /\ Len(cards) = NumRanks
    /\ \A i \in 1 .. Len(cards) :
          /\ Suit(cards[i]) = Suit(cards[1])
          /\ Rank(cards[i]) = NumRanks + 1 - i

----------------------------------------------------------------------------
(* SpiderSolitaire: mutators, as functions of the fields they touch *)

\* add_wildcard_to_empty_columns
add_wildcard_to_empty_columns(cols) ==
    [i \in Cols |-> IF cols[i] = <<>> THEN <<WildCard>> ELSE cols[i]]

\* the first empty foundation slot, or -1 when every slot is taken
FirstEmptySlot(fnd) ==
    IF \E k \in Slots : fnd[k] = <<>>
    THEN CHOOSE k \in Slots : fnd[k] = <<>> /\ \A j \in Slots : j < k => fnd[j] # <<>>
    ELSE -1

\* a completion check that files the run in the last empty slot
LastEmptySlot(fnd) ==
    IF \E k \in Slots : fnd[k] = <<>>
    THEN CHOOSE k \in Slots : fnd[k] = <<>> /\ \A j \in Slots : j > k => fnd[j] # <<>>
    ELSE -1

RECURSIVE CompleteIntoLastSlot(_, _, _)
CompleteIntoLastSlot(column, fnd, fu) ==
    IF Len(column) >= NumRanks /\ is_full_sequence(From(column, Len(column) - NumRanks))
    THEN LET last_13 == From(column, Len(column) - NumRanks)
             rest == Upto(column, Len(column) - NumRanks)
             k == LastEmptySlot(fnd)
             fnd1 == IF k = -1 THEN fnd ELSE [fnd EXCEPT ![k] = last_13]
             fu1 == IF rest # <<>> /\ ~FaceUp(fu, Last(rest)) THEN flip(fu, Last(rest)) ELSE fu
         IN  CompleteIntoLastSlot(rest, fnd1, fu1)
    ELSE [column |-> column, foundations |-> fnd, face_up |-> fu]

\* a completion check that files the cards in the order column.pop() hands
\* them over, Ace first
RECURSIVE CompletePoppedOrder(_, _, _)
CompletePoppedOrder(column, fnd, fu) ==
    IF Len(column) >= NumRanks /\ is_full_sequence(From(column, Len(column) - NumRanks))
    THEN LET last_13 == From(column, Len(column) - NumRanks)
             popped == [i \in 1 .. NumRanks |-> last_13[NumRanks + 1 - i]]
             rest == Upto(column, Len(column) - NumRanks)
             k == FirstEmptySlot(fnd)
             fnd1 == IF k = -1 THEN fnd ELSE [fnd EXCEPT ![k] = popped]
             fu1 == IF rest # <<>> /\ ~FaceUp(fu, Last(rest)) THEN flip(fu, Last(rest)) ELSE fu
         IN  CompletePoppedOrder(rest, fnd1, fu1)
    ELSE [column |-> column, foundations |-> fnd, face_up |-> fu]

\* check_for_complete_suits on one column: the column, the foundations and
\* the face_up flags it leaves
RECURSIVE check_for_complete_suits(_, _, _)
check_for_complete_suits(column, fnd, fu) ==
    IF Len(column) >= NumRanks /\ is_full_sequence(From(column, Len(column) - NumRanks))
    THEN LET last_13 == From(column, Len(column) - NumRanks)
             rest == Upto(column, Len(column) - NumRanks)
             k == FirstEmptySlot(fnd)
             fnd1 == IF k = -1 THEN fnd ELSE [fnd EXCEPT ![k] = last_13]
             fu1 == IF rest # <<>> /\ ~FaceUp(fu, Last(rest)) THEN flip(fu, Last(rest)) ELSE fu
         IN  check_for_complete_suits(rest, fnd1, fu1)
    ELSE [column |-> column, foundations |-> fnd, face_up |-> fu]

\* move_sequence(from_col, card_index, to_col), for two different columns
\* f and t and an index inside the source
move_sequence(cols, fnd, fu, f, card_index, t) ==
    LET from_col == cols[f]
        to_col == IF cols[t] # <<>> /\ IsWildCard(Last(cols[t]))
                  THEN Upto(cols[t], Len(cols[t]) - 1) ELSE cols[t]
        found == get_movable_sequence(from_col, card_index, fu)
        movable_sequence == IF found = <<>> THEN <<from_col[card_index + 1]>> ELSE found
        moving_cards == From(from_col, card_index)
        from1 == Upto(from_col, card_index)
        to1 == to_col \o moving_cards
        fu1 == IF from1 # <<>> /\ ~FaceUp(fu, Last(from1)) THEN flip(fu, Last(from1)) ELSE fu
        cols1 == add_wildcard_to_empty_columns([cols EXCEPT ![f] = from1, ![t] = to1])
        done == check_for_complete_suits(cols1[t], fnd, fu1)
    IN  [columns |-> [cols1 EXCEPT ![t] = done.column],
         foundations |-> done.foundations,
         face_up |-> done.face_up,
         entry |-> [kind |-> "move", from |-> f, to |-> t, cards |-> movable_sequence]]

\* a quota check that lets one deal too many through
QuotaOffByOne(dc) == dc > max_draws

\* the quota check of deal_additional_row
QuotaExhausted(dc) == dc >= max_draws

\* a deal loop that leaves the placeholder under the dealt card
RECURSIVE DealOntoPlaceholder(_, _, _, _)
DealOntoPlaceholder(cols, fu, new_cards, n) ==
    IF n = 0 THEN [columns |-> cols, face_up |-> fu]
    ELSE LET prev == DealOntoPlaceholder(cols, fu, new_cards, n - 1)
             i == n - 1
             card == new_cards[i + 1]
         IN  [columns |-> [prev.columns EXCEPT ![i] = Append(prev.columns[i], card)],
              face_up |-> IF IsWildCard(card) THEN prev.face_up
                          ELSE [prev.face_up EXCEPT ![card] = TRUE]]

\* the loop of deal_additional_row over the columns 0 .. n-1
RECURSIVE DealLoop(_, _, _, _)
DealLoop(cols, fu, new_cards, n) ==
    IF n = 0 THEN [columns |-> cols, face_up |-> fu]
    ELSE LET prev == DealLoop(cols, fu, new_cards, n - 1)
             i == n - 1
             col == prev.columns[i]
             col1 == IF IsWildCard(Last(col)) THEN Upto(col, Len(col) - 1) ELSE col
             card == new_cards[i + 1]
         IN  [columns |-> [prev.columns EXCEPT ![i] = Append(col1, card)],
              face_up |-> IF IsWildCard(card) THEN prev.face_up
                          ELSE [prev.face_up EXCEPT ![card] = TRUE]]

\* columns 0 .. FirstEmptyColumn-1 are handled before col[-1] raises
FirstEmptyColumn(cols) ==
    IF \E i \in Cols : cols[i] = <<>>
    THEN CHOOSE i \in Cols : cols[i] = <<>> /\ \A j \in Cols : j < i => cols[j] # <<>>
    ELSE NumColumns

\* the move branch of undo_last_move
UndoMove(cols, fu, last_move) ==
    LET f == last_move.from
        t == last_move.to
        moved_cards == last_move.cards
        n == Len(moved_cards)
        to1 == Upto(cols[t], IF Len(cols[t]) > n THEN Len(cols[t]) - n ELSE 0)
        from1 == cols[f] \o moved_cards
        fu1 == IF ~FaceUp(fu, Last(from1)) THEN flip(fu, Last(from1)) ELSE fu
    IN  [columns |-> add_wildcard_to_empty_columns([cols EXCEPT ![f] = from1, ![t] = to1]),
         face_up |-> fu1]

\* the deal branch of undo_last_move: col.pop() on the columns 0 .. n-1
PopColumns(cols, n) ==
    [i \in Cols |-> IF i < n THEN Upto(cols[i], Len(cols[i]) - 1) ELSE cols[i]]

----------------------------------------------------------------------------
(* Deck orders the shuffle may leave *)

Piles == [columns |-> columns, foundations |-> foundations, deck |-> deck]

NoCall == [name |-> "new", from |-> -1, index |-> -1, to |-> -1]

\* SpiderSolitaire.__init__ on a deck in the order `cards`
PileStart(i) == IF i < NumShortPiles THEN ShortPile * i
                ELSE ShortPile * NumShortPiles + LongPile * (i - NumShortPiles)
\* a split that hands the long piles out first
LongPilesFirst(i) == IF i < NumColumns - NumShortPiles THEN LongPile ELSE ShortPile
PileSize(i) == IF i < NumShortPiles THEN ShortPile ELSE LongPile
InitialDealt == PileStart(NumColumns)

\* a construction that turns every dealt card face up
NewGameOpen(cards) ==
    /\ columns = [i \in Cols |-> SubSeq(cards, PileStart(i) + 1, PileStart(i) + PileSize(i))]
    /\ deck = From(cards, InitialDealt)
    /\ face_up = [c \in Cards |-> \E i \in Cols : c \in Range(columns[i])]
    /\ foundations = [k \in Slots |-> <<>>]
    /\ moves = 0
    /\ deal_count = 0
    /\ move_history = <<>>
    /\ call = NoCall
    /\ ret = "None"
    /\ undos = 0
    /\ trail = <<>>
    /\ undone = 0

NewGame(cards) ==
    /\ columns = [i \in Cols |-> SubSeq(cards, PileStart(i) + 1, PileStart(i) + PileSize(i))]
    /\ deck = From(cards, InitialDealt)
    /\ face_up = [c \in Cards |->
                    \E i \in Cols : c = cards[PileStart(i) + PileSize(i)]]
    /\ foundations = [k \in Slots |-> <<>>]
    /\ moves = 0
    /\ deal_count = 0
    /\ move_history = <<>>
    /\ call = NoCall
    /\ ret = "None"
    /\ undos = 0
    /\ trail = <<>>
    /\ undone = 0

----------------------------------------------------------------------------
(* The engine's operations as actions *)

\* a move_sequence that records nothing for the undo
MoveUnrecorded(f, card_index, t) ==
    /\ f # t
    /\ card_index < Len(columns[f])
    /\ LET r == move_sequence(columns, foundations, face_up, f, card_index, t)
       IN  /\ columns' = r.columns
           /\ foundations' = r.foundations
           /\ face_up' = r.face_up
           /\ move_history' = move_history
    /\ moves' = moves + 1
    /\ call' = [name |-> "move_sequence", from |-> f, index |-> card_index, to |-> t]
    /\ ret' = "None"
    /\ trail' = IF undone > 0 THEN <<Piles>> ELSE Append(trail, Piles)
    /\ undone' = 0
    /\ UNCHANGED <<deck, deal_count, undos>>

\* a call move_sequence(columns[f], card_index, columns[t])
CallMoveSequence(f, card_index, t) ==
    /\ f # t
    /\ card_index < Len(columns[f])
    /\ LET r == move_sequence(columns, foundations, face_up, f, card_index, t)
       IN  /\ columns' = r.columns
           /\ foundations' = r.foundations
           /\ face_up' = r.face_up
           /\ move_history' = Append(move_history, r.entry)
    /\ moves' = moves + 1
    /\ call' = [name |-> "move_sequence", from |-> f, index |-> card_index, to |-> t]
    /\ ret' = "None"
    /\ trail' = IF undone > 0 THEN <<Piles>> ELSE Append(trail, Piles)
    /\ undone' = 0
    /\ UNCHANGED <<deck, deal_count, undos>>

\* move_sequence, called as the caller must: after can_move_card said True
Move(f, card_index, t) ==
    /\ moves < MaxMoves
    /\ can_move_card(columns[f], card_index, columns[t], face_up) = "True"
    /\ CallMoveSequence(f, card_index, t)

\* the same, by a caller that only ever picks up a movable run
MoveRun(f, card_index, t) ==
    /\ moves < MaxRunMoves
    /\ get_movable_sequence(columns[f], card_index, face_up) # <<>>
    /\ can_move_card(columns[f], card_index, columns[t], face_up) = "True"
    /\ CallMoveSequence(f, card_index, t)

\* deal_additional_row
Deal ==
    /\ call' = [NoCall EXCEPT !.name = "deal_additional_row"]
    /\ IF QuotaExhausted(deal_count)
       THEN /\ ret' = "False"
            /\ UNCHANGED <<deck, columns, foundations, face_up, moves, deal_count,
                           move_history, undos, trail, undone>>
       ELSE LET d == DeckDeal(deck, RowSize)
                e == FirstEmptyColumn(columns)
                r == DealLoop(columns, face_up, d.dealt_cards, e)
            IN  IF d.raised
                THEN /\ ret' = "ValueError"
                     /\ UNCHANGED <<deck, columns, foundations, face_up, moves,
                                    deal_count, move_history, undos, trail, undone>>
                ELSE /\ deck' = d.cards
                     /\ columns' = r.columns
                     /\ face_up' = r.face_up
                     /\ IF e < NumColumns
                        THEN /\ ret' = "IndexError"
                             /\ trail' = <<>>
                             /\ UNCHANGED <<deal_count, move_history>>
                        ELSE /\ ret' = "True"
                             /\ deal_count' = deal_count + 1
                             /\ move_history' = Append(move_history,
                                   [kind |-> "deal", from |-> -1, to |-> -1,
                                    cards |-> d.dealt_cards])
                             /\ trail' = IF undone > 0 THEN <<Piles>> ELSE Append(trail, Piles)
                     /\ undone' = 0
                     /\ UNCHANGED <<foundations, moves, undos>>

\* an undo that reads the last history entry and leaves it in the history
UndoPeeks(max_undos) ==
    /\ call' = [NoCall EXCEPT !.name = "undo_last_move"]
    /\ IF move_history = <<>>
       THEN /\ ret' = "False"
            /\ UNCHANGED <<deck, columns, foundations, face_up, moves, deal_count,
                           move_history, undos, trail, undone>>
       ELSE /\ undos < max_undos
            /\ LET last_move == Last(move_history)
                   e == FirstEmptyColumn(columns)
               IN  /\ move_history' = move_history
                   /\ IF last_move.kind = "move"
                      THEN LET r == UndoMove(columns, face_up, last_move)
                           IN  /\ columns' = r.columns
                               /\ face_up' = r.face_up
                               /\ ret' = "True"
                               /\ UNCHANGED trail
                      ELSE /\ face_up' = face_up
                           /\ IF e < NumColumns
                              THEN /\ columns' = PopColumns(columns, e)
                                   /\ ret' = "IndexError"
                                   /\ trail' = <<>>
                              ELSE /\ columns' = add_wildcard_to_empty_columns(
                                                    PopColumns(columns, NumColumns))
                                   /\ ret' = "True"
                                   /\ UNCHANGED trail
            /\ undos' = undos + 1
            /\ undone' = undone + 1
            /\ UNCHANGED <<deck, foundations, moves, deal_count>>

\* undo_last_move, at most max_undos times with something to undo
CallUndo(max_undos) ==
    /\ call' = [NoCall EXCEPT !.name = "undo_last_move"]
    /\ IF move_history = <<>>
       THEN /\ ret' = "False"
            /\ UNCHANGED <<deck, columns, foundations, face_up, moves, deal_count,
                           move_history, undos, trail, undone>>
       ELSE /\ undos < max_undos
            /\ LET last_move == Last(move_history)
                   e == FirstEmptyColumn(columns)
               IN  /\ move_history' = Upto(move_history, Len(move_history) - 1)
                   /\ IF last_move.kind = "move"
                      THEN LET r == UndoMove(columns, face_up, last_move)
                           IN  /\ columns' = r.columns
                               /\ face_up' = r.face_up
                               /\ ret' = "True"
                               /\ UNCHANGED trail
                      ELSE /\ face_up' = face_up
                           /\ IF e < NumColumns
                              THEN /\ columns' = PopColumns(columns, e)
                                   /\ ret' = "IndexError"
                                   /\ trail' = <<>>
                              ELSE /\ columns' = add_wildcard_to_empty_columns(
                                                    PopColumns(columns, NumColumns))
                                   /\ ret' = "True"
                                   /\ UNCHANGED trail
            /\ undos' = undos + 1
            /\ undone' = undone + 1
            /\ UNCHANGED <<deck, foundations, moves, deal_count>>

Undo == CallUndo(MaxUndos)

UndoRun == CallUndo(MaxRunUndos)

----------------------------------------------------------------------------
(* The games checked: one per deck order *)

\* A deck order on which five deals build King..8 of Spades on columns 6
\* and 9 and 6..Ace of Spades on column 8, and bring the 7 of Spades to
\* column 7.
ShuffleA ==
    <<17, 20, 28, 26, 19, 30, 31, 33, 52, 45, 41, 43, 44, 78, 71, 46, 47, 54,
      104, 97, 56, 57, 59, 65, 32, 60, 64, 67, 91, 58, 69, 70, 72, 73, 25, 39,
      79, 80, 82, 83, 51, 84, 85, 86, 90, 93, 77, 6, 95, 96, 98, 99, 103, 13,
      23, 49, 75, 101, 62, 88, 38, 18, 5, 12, 24, 50, 76, 102, 63, 89, 37, 21,
      4, 11, 16, 42, 68, 94, 29, 55, 36, 81, 3, 10, 22, 48, 74, 100, 61, 87,
      35, 15, 2, 9, 14, 40, 66, 92, 27, 53, 34, 7, 1, 8>>

Shuffles == {ShuffleA}

Init == \E cards \in Shuffles : NewGame(cards)

Next ==
    \/ \E f \in Cols, t \in Cols : \E card_index \in 0 .. (Len(columns[f]) - 1) :
          Move(f, card_index, t)
    \/ Deal
    \/ Undo

Spec == Init /\ [][Next]_vars

\* The same game played by picking up movable runs only: fewer moves to
\* choose from, so longer games can be followed.
NextRuns ==
    \/ \E f \in Cols, t \in Cols : \E card_index \in 0 .. (Len(columns[f]) - 1) :
          MoveRun(f, card_index, t)
    \/ Deal
    \/ UndoRun

SpecRuns == Init /\ [][NextRuns]_vars

\* A deck order on which four deals build King..9 of Spades on column 0,
\* 8..6 on column 1 and 5..Ace on column 2: two moves complete the run on
\* column 0 while one deal is still to come.
ShuffleB ==
    <<17, 18, 21, 26, 13, 29, 30, 31, 34, 23, 35, 39, 43, 44, 5, 47, 52, 55,
      56, 49, 57, 58, 59, 60, 16, 61, 62, 64, 65, 75, 69, 70, 73, 78, 81, 42,
      82, 83, 84, 85, 86, 101, 87, 88, 90, 91, 94, 68, 95, 96, 99, 100, 104,
      36, 12, 20, 4, 46, 22, 72, 48, 98, 74, 33, 11, 8, 3, 24, 50, 76, 102,
      37, 63, 89, 10, 7, 2, 15, 41, 67, 93, 28, 54, 80, 9, 6, 1, 14, 40, 66,
      92, 27, 53, 79, 25, 19, 51, 45, 77, 71, 103, 97, 38, 32>>

InitB == NewGame(ShuffleB)

SpecB == InitB /\ [][Next]_vars

\* A deck order on which four deals build King..9, 8..6 and 5..Ace of
\* Spades on columns 1, 2 and 3 and the same runs of Hearts on columns 4, 5
\* and 6: both suits can be completed on column 1 while one deal is still
\* to come.
ShuffleC ==
    <<29, 30, 31, 33, 42, 34, 35, 36, 39, 13, 43, 44, 47, 52, 68, 54, 55,
      56, 57, 5, 59, 60, 61, 62, 26, 63, 65, 69, 70, 49, 73, 78, 80, 81, 82,
      18, 83, 84, 85, 86, 87, 75, 88, 89, 90, 91, 95, 94, 96, 98, 99, 100,
      104, 101, 48, 12, 40, 4, 25, 66, 17, 46, 74, 72, 50, 11, 8, 3, 24, 21,
      16, 76, 102, 37, 41, 10, 7, 2, 23, 20, 15, 67, 93, 28, 92, 9, 6, 1,
      22, 19, 14, 27, 53, 79, 51, 45, 77, 71, 103, 97, 38, 32, 64, 58>>

InitC == NewGame(ShuffleC)

\* That game played by a caller who picks up movable runs only and puts
\* every run on column 1.
NextC ==
    \/ \E f \in Cols : \E card_index \in 0 .. (Len(columns[f]) - 1) :
          MoveRun(f, card_index, 1)
    \/ Deal
    \/ UndoRun

SpecC == InitC /\ [][NextC]_vars

----------------------------------------------------------------------------
(* spider_solitaire.py: the earlier engine, without placeholders or undo.  *)
(* Its Deck holds 2 decks x 2 suits x 13 ranks, cards 1..52, and every     *)
(* pile of the initial deal has five cards.                                *)

NumSuits1 == 2
PileSize1 == 5
PartialRow1 == 4

NumCards1 == NumDecks * NumSuits1 * NumRanks
Cards1 == 1 .. NumCards1

\* Deck.deal of spider_solitaire.py: clamps to what remains
DeckDeal1(cards, num_cards) ==
    LET n == IF num_cards > Len(cards) THEN Len(cards) ELSE num_cards
    IN  [dealt_cards |-> SubSeq(cards, 1, n), cards |-> From(cards, n)]

\* a loop that follows the ranks down whatever the suits
RECURSIVE ExtendAnySuit(_, _, _, _)
ExtendAnySuit(col, seq, i, fu) ==
    IF i >= Len(col) THEN seq
    ELSE LET prev_card == Last(seq)
             curr_card == col[i + 1]
         IN  IF FaceUp(fu, curr_card) /\ Rank(curr_card) = Rank(prev_card) - 1
             THEN ExtendAnySuit(col, Append(seq, curr_card), i + 1, fu)
             ELSE seq

\* the loop of get_movable_sequence: seq grown over col[i], col[i+1], ...
RECURSIVE ExtendRun1(_, _, _, _)
ExtendRun1(col, seq, i, fu) ==
    IF i >= Len(col) THEN seq
    ELSE LET prev_card == Last(seq)
             curr_card == col[i + 1]
         IN  IF /\ FaceUp(fu, curr_card)
                /\ Suit(curr_card) = Suit(prev_card)
                /\ Rank(curr_card) = Rank(prev_card) - 1
             THEN ExtendRun1(col, Append(seq, curr_card), i + 1, fu)
             ELSE seq

\* get_movable_sequence of spider_solitaire.py
get_movable_sequence1(col, start_index, fu) ==
    IF start_index < 0 \/ start_index >= Len(col) THEN <<>>
    ELSE IF ~FaceUp(fu, col[start_index + 1]) THEN <<>>
    ELSE ExtendRun1(col, <<col[start_index + 1]>>, start_index + 1, fu)

\* can_move_card of spider_solitaire.py
can_move_card1(from_col, card_index, to_col, fu) ==
    LET movable_sequence == get_movable_sequence1(from_col, card_index, fu)
    IN  IF movable_sequence = <<>> THEN "False"
        ELSE IF to_col = <<>> THEN "True"
        ELSE IF Rank(movable_sequence[1]) = Rank(Last(to_col)) - 1 THEN "True" ELSE "False"

\* has_empty_column
has_empty_column(cols) == \E i \in Cols : Len(cols[i]) = 0

\* check_for_complete_suits of spider_solitaire.py: no card is flipped
RECURSIVE check_for_complete_suits1(_, _)
check_for_complete_suits1(column, fnd) ==
    IF Len(column) >= NumRanks /\ is_full_sequence(From(column, Len(column) - NumRanks))
    THEN LET last_13 == From(column, Len(column) - NumRanks)
             k == FirstEmptySlot(fnd)
         IN  check_for_complete_suits1(Upto(column, Len(column) - NumRanks),
                                       IF k = -1 THEN fnd ELSE [fnd EXCEPT ![k] = last_13])
    ELSE [column |-> column, foundations |-> fnd]

\* a move that takes every card from card_index to the end of the column
MoveTail1(cols, fnd, fu, f, card_index, t) ==
    LET from_col == cols[f]
        moving_cards == From(from_col, card_index)
        from1 == Upto(from_col, card_index)
        fu1 == IF from1 # <<>> /\ ~FaceUp(fu, Last(from1)) THEN flip(fu, Last(from1)) ELSE fu
        done == check_for_complete_suits1(cols[t] \o moving_cards, fnd)
    IN  [columns |-> [cols EXCEPT ![f] = from1, ![t] = done.column],
         foundations |-> done.foundations,
         face_up |-> fu1]

\* move_sequence of spider_solitaire.py, for two different columns and a
\* card_index at which a sequence is found
move_sequence1(cols, fnd, fu, f, card_index, t) ==
    LET from_col == cols[f]
        length == Len(get_movable_sequence1(from_col, card_index, fu))
        moving_cards == SubSeq(from_col, card_index + 1, card_index + length)
        from1 == Upto(from_col, card_index) \o From(from_col, card_index + length)
        fu1 == IF from1 # <<>> /\ ~FaceUp(fu, Last(from1)) THEN flip(fu, Last(from1)) ELSE fu
        done == check_for_complete_suits1(cols[t] \o moving_cards, fnd)
    IN  [columns |-> [cols EXCEPT ![f] = from1, ![t] = done.column],
         foundations |-> done.foundations,
         face_up |-> fu1]

\* a win test that is content with one completed suit
WonWithOne(fnd) == Cardinality({k \in Slots : Len(fnd[k]) = NumRanks}) >= 1

\* is_game_won
is_game_won(fnd) == Cardinality({k \in Slots : Len(fnd[k]) = NumRanks}) = NumFoundations

\* a construction that deals piles of four cards and so keeps twelve cards
\* in the stock
NewGameSmallPiles1(cards) ==
    /\ columns = [i \in Cols |-> SubSeq(cards, PartialRow1 * i + 1, PartialRow1 * (i + 1))]
    /\ deck = From(cards, PartialRow1 * NumColumns)
    /\ face_up = [c \in Cards1 |-> \E i \in Cols : c = cards[PartialRow1 * (i + 1)]]
    /\ foundations = [k \in Slots |-> <<>>]
    /\ moves = 0
    /\ deal_count = 0
    /\ move_history = <<>>
    /\ call = NoCall
    /\ ret = "None"
    /\ undos = 0
    /\ trail = <<>>
    /\ undone = 0

\* SpiderSolitaire.__init__ of spider_solitaire.py on a deck in the order `cards`
NewGame1(cards) ==
    /\ columns = [i \in Cols |-> SubSeq(cards, PileSize1 * i + 1, PileSize1 * (i + 1))]
    /\ deck = From(cards, PileSize1 * NumColumns)
    /\ face_up = [c \in Cards1 |-> \E i \in Cols : c = cards[PileSize1 * (i + 1)]]
    /\ foundations = [k \in Slots |-> <<>>]
    /\ moves = 0
    /\ deal_count = 0
    /\ move_history = <<>>
    /\ call = NoCall
    /\ ret = "None"
    /\ undos = 0
    /\ trail = <<>>
    /\ undone = 0

\* move_sequence, called after can_move_card said True
Move1(f, card_index, t) ==
    /\ moves < MaxMoves1
    /\ f # t
    /\ can_move_card1(columns[f], card_index, columns[t], face_up) = "True"
    /\ LET r == move_sequence1(columns, foundations, face_up, f, card_index, t)
       IN  /\ columns' = r.columns
           /\ foundations' = r.foundations
           /\ face_up' = r.face_up
    /\ moves' = moves + 1
    /\ call' = [name |-> "move_sequence", from |-> f, index |-> card_index, to |-> t]
    /\ ret' = "None"
    /\ UNCHANGED <<deck, deal_count, move_history, undos, trail, undone>>

\* a deal that hands out what is left of the stock, one card to each of the
\* first columns, without looking for an empty column
DealWhatIsLeft1 ==
    /\ call' = [NoCall EXCEPT !.name = "deal_additional_row"]
    /\ IF Len(deck) = 0
       THEN /\ ret' = "False"
            /\ UNCHANGED <<deck, columns, face_up, deal_count>>
       ELSE LET d == DeckDeal1(deck, RowSize)
                n == Len(d.dealt_cards)
            IN  /\ deck' = d.cards
                /\ columns' = [i \in Cols |->
                      IF i < n THEN Append(columns[i], d.dealt_cards[i + 1]) ELSE columns[i]]
                /\ face_up' = [c \in Cards1 |-> face_up[c] \/ c \in Range(d.dealt_cards)]
                /\ deal_count' = deal_count + 1
                /\ ret' = "True"
    /\ UNCHANGED <<foundations, moves, move_history, undos, trail, undone>>

\* deal_additional_row of spider_solitaire.py
Deal1 ==
    /\ call' = [NoCall EXCEPT !.name = "deal_additional_row"]
    /\ IF has_empty_column(columns) \/ Len(deck) = 0
          \/ (Len(deck) < RowSize /\ Len(deck) < PartialRow1)
       THEN /\ ret' = "False"
            /\ UNCHANGED <<deck, columns, face_up, deal_count>>
       ELSE LET n == IF Len(deck) >= RowSize THEN RowSize ELSE PartialRow1
                d == DeckDeal1(deck, n)
            IN  /\ deck' = d.cards
                /\ columns' = [i \in Cols |->
                      IF i < n THEN Append(columns[i], d.dealt_cards[i + 1]) ELSE columns[i]]
                /\ face_up' = [c \in Cards1 |-> face_up[c] \/ c \in Range(d.dealt_cards)]
                /\ deal_count' = deal_count + 1
                /\ ret' = "True"
    /\ UNCHANGED <<foundations, moves, move_history, undos, trail, undone>>

\* A deck order with the King of Spades on top of column 0 and Queen..9,
\* 8..5 and 4..Ace of Spades, top down, on columns 1, 2 and 3.
Shuffle1 ==
    <<15, 16, 17, 18, 13, 19, 9, 10, 11, 12, 20, 5, 6, 7, 8, 21, 1, 2, 3, 4,
      22, 23, 24, 25, 14, 28, 29, 30, 31, 40, 32, 33, 34, 35, 27, 36, 37,
      38, 41, 26, 42, 43, 44, 45, 52, 46, 47, 48, 49, 39, 50, 51>>

Shuffles1 == {Shuffle1}

Init1 == \E cards \in Shuffles1 : NewGame1(cards)

Next1 ==
    \/ \E f \in Cols, t \in Cols : \E card_index \in 0 .. (Len(columns[f]) - 1) :
          Move1(f, card_index, t)
    \/ Deal1

Spec1 == Init1 /\ [][Next1]_vars

----------------------------------------------------------------------------
(* The queries get_movable_sequence and can_move_card of both files, called  *)
(* on a source column (column 0) and a destination column (column 1).        *)

MaxLen == 4

\* 6, 7, 8, 9 of Spades and 6 of Hearts for the source column;
\* 7 and 9 of Hearts for the top of the destination
SourceCards == {6, 7, 8, 9, 19}
TargetCards == {20, 22}

\* the source columns: up to MaxLen different cards, the lowest `down` of them
\* face down
SourceColumns ==
    {col \in UNION {[1 .. n -> SourceCards] : n \in 0 .. MaxLen} :
        \A i, j \in 1 .. Len(col) : i # j => col[i] # col[j]}

\* the destination columns: empty, a placeholder, or a real card on top
TargetColumns == {<<>>, <<WildCard>>} \cup {<<c>> : c \in TargetCards}

InitFn ==
    /\ \E from_col \in SourceColumns, to_col \in TargetColumns :
          /\ columns = [i \in Cols |-> IF i = 0 THEN from_col
                                       ELSE IF i = 1 THEN to_col ELSE <<>>]
          /\ \E down \in 0 .. Len(from_col) :
                face_up = [c \in Cards |-> \A i \in 1 .. down : from_col[i] # c]
    /\ deck = <<>>
    /\ foundations = [k \in Slots |-> <<>>]
    /\ moves = 0
    /\ deal_count = 0
    /\ move_history = <<>>
    /\ call = NoCall
    /\ ret = "None"
    /\ undos = 0
    /\ trail = <<>>
    /\ undone = 0

Query(name, f, index, t, result) ==
    /\ call' = [name |-> name, from |-> f, index |-> index, to |-> t]
    /\ ret' = result
    /\ UNCHANGED <<deck, columns, foundations, face_up, moves, deal_count,
                   move_history, undos, trail, undone>>

\* game.get_movable_sequence(columns[0], start_index), spider_solitaire3.py
GetMovableSequence ==
    \E start_index \in -1 .. Len(columns[0]) :
        Query("get_movable_sequence", 0, start_index, -1,
              get_movable_sequence(columns[0], start_index, face_up))

\* game.can_move_card(columns[0], card_index, columns[1]), spider_solitaire3.py
CanMoveCard ==
    \E card_index \in -1 .. Len(columns[0]) :
        Query("can_move_card", 0, card_index, 1,
              can_move_card(columns[0], card_index, columns[1], face_up))

\* game.get_movable_sequence(columns[0], start_index), spider_solitaire.py
GetMovableSequence1 ==
    \E start_index \in -1 .. Len(columns[0]) :
        Query("get_movable_sequence1", 0, start_index, -1,
              get_movable_sequence1(columns[0], start_index, face_up))

\* game.can_move_card(columns[0], card_index, columns[1]), spider_solitaire.py
CanMoveCard1 ==
    \E card_index \in -1 .. Len(columns[0]) :
        Query("can_move_card1", 0, card_index, 1,
              can_move_card1(columns[0], card_index, columns[1], face_up))

NextFn == GetMovableSequence \/ CanMoveCard \/ GetMovableSequence1 \/ CanMoveCard1

SpecFn == InitFn /\ [][NextFn]_vars

----------------------------------------------------------------------------
(* The Deck class on its own: construction, shuffle and deal *)

\* the cards in the order Deck.__init__ appends them, before the shuffle
NewDeck == [i \in 1 .. NumCards |-> i]
NewDeck1 == [i \in 1 .. NumCards1 |-> i]

\* the index random.shuffle draws for position i (0-based), for one source
\* of randomness
Draw(seed, i) == (seed + (seed + 1) * i * i) % (i + 1)

\* a shuffle that copies x[j] into x[i] and forgets what x[i] held
RECURSIVE ShuffleOverwrites(_, _, _, _)
ShuffleOverwrites(x, lo, hi, seed) ==
    IF lo > hi THEN x
    ELSE IF lo = hi THEN [x EXCEPT ![lo + 1] = x[Draw(seed, lo) + 1]]
    ELSE LET upper == ShuffleOverwrites(x, (lo + hi) \div 2 + 1, hi, seed)
         IN  IF Len(upper) = Len(x)
             THEN ShuffleOverwrites(upper, lo, (lo + hi) \div 2, seed)
             ELSE x

\* random.shuffle(x), the steps i = hi down to lo of its loop: each swaps x[i]
\* with x[j] for a drawn j in 0 .. i. The steps of the upper half are taken
\* first, then those of the lower half; a swap keeps the length.
RECURSIVE FisherYates(_, _, _, _)
FisherYates(x, lo, hi, seed) ==
    IF lo > hi THEN x
    ELSE IF lo = hi
         THEN [x EXCEPT ![lo + 1] = x[Draw(seed, lo) + 1], ![Draw(seed, lo) + 1] = x[lo + 1]]
    ELSE LET upper == FisherYates(x, (lo + hi) \div 2 + 1, hi, seed)
         IN  IF Len(upper) = Len(x)
             THEN FisherYates(upper, lo, (lo + hi) \div 2, seed)
             ELSE x

\* Deck.shuffle
shuffle(cards, seed) == FisherYates(cards, 1, Len(cards) - 1, seed)

Seeds == 0 .. MaxSeed

\* the sizes asked of Deck.deal: none, the pile and row sizes of the game,
\* all that is left, and one more than is left
DealSizes(cards) == {0, ShortPile, LongPile, RowSize, Len(cards), Len(cards) + 1}

\* which file's Deck the object is: the calls on a Deck of spider_solitaire.py
\* carry the suffix 1
IsDeck1 == call.name \in {"Deck1", "shuffle1", "deal1"}

\* Deck() of spider_solitaire3.py or of spider_solitaire.py
InitDeck ==
    /\ \E seed \in Seeds :
          \/ /\ deck = shuffle(NewDeck, seed)
             /\ call = [name |-> "Deck", from |-> -1, index |-> seed, to |-> -1]
          \/ /\ deck = shuffle(NewDeck1, seed)
             /\ call = [name |-> "Deck1", from |-> -1, index |-> seed, to |-> -1]
    /\ columns = [i \in Cols |-> <<>>]
    /\ foundations = [k \in Slots |-> <<>>]
    /\ face_up = [c \in Cards |-> FALSE]
    /\ moves = 0
    /\ deal_count = 0
    /\ move_history = <<>>
    /\ ret = "None"
    /\ undos = 0
    /\ trail = <<>>
    /\ undone = 0

\* one call on the Deck: the deck and the value it leaves; a deal leaves
\* whether it raised ValueError and the list it returned
DeckCall(name, arg, cards, result) ==
    /\ Len(trail) < MaxDeckCalls
    /\ call' = [name |-> name, from |-> -1, index |-> arg, to |-> -1]
    /\ deck' = cards
    /\ ret' = result
    /\ trail' = Append(trail, Piles)
    /\ UNCHANGED <<columns, foundations, face_up, moves, deal_count,
                   move_history, undos, undone>>

\* deck.shuffle(), either file
ShuffleDeck ==
    \E seed \in Seeds :
        DeckCall(IF IsDeck1 THEN "shuffle1" ELSE "shuffle", seed, shuffle(deck, seed), "None")

\* deck.deal(num_cards), spider_solitaire3.py
DealDeck ==
    /\ ~IsDeck1
    /\ \E num_cards \in DealSizes(deck) :
          LET r == DeckDeal(deck, num_cards)
          IN  DeckCall("deal", num_cards, r.cards,
                       [raised |-> r.raised, dealt_cards |-> r.dealt_cards])

\* deck.deal(num_cards), spider_solitaire.py
DealDeck1 ==
    /\ IsDeck1
    /\ \E num_cards \in DealSizes(deck) :
          LET r == DeckDeal1(deck, num_cards)
          IN  DeckCall("deal1", num_cards, r.cards,
                       [raised |-> FALSE, dealt_cards |-> r.dealt_cards])

NextDeck == ShuffleDeck \/ DealDeck \/ DealDeck1

SpecDeck == InitDeck /\ [][NextDeck]_vars

----------------------------------------------------------------------------
(* Properties *)

IsMoveStep == call'.name = "move_sequence" /\ moves' = moves + 1
IsDealStep == call'.name = "deal_additional_row"

\* the destination of the move just called, once its placeholder is removed
\* and the cards from card_index on are appended
StripWildCard(col) ==
    IF col # <<>> /\ IsWildCard(Last(col)) THEN Upto(col, Len(col) - 1) ELSE col
Transferred(f, card_index, t) == StripWildCard(columns[t]) \o From(columns[f], card_index)

\* C1: after k successful moves or deals from a state S, k undos bring the
\* columns, the foundations and the deck back to what they were in S.
UndoRoundTrip ==
    undone \in 1 .. Len(trail) => Piles = trail[Len(trail) - undone + 1]

\* C2: once deal_count has reached max_draws, deal_additional_row returns
\* False and changes neither deck, columns, foundations, deal_count, moves
\* nor move_history.
DrawQuota ==
    [][(IsDealStep /\ deal_count = max_draws) =>
          /\ ret' = "False"
          /\ UNCHANGED <<deck, columns, foundations, deal_count, moves, move_history>>]_vars

DrawQuotaWitness ==
    /\ call.name = "deal_additional_row"
    /\ ret = "False"
    /\ deal_count = max_draws
    /\ moves > 0
    /\ undos > 0

\* C3: when a move leaves the last 13 cards of the destination a King-to-Ace
\* run of one suit, those cards leave the column and fill, in that order, the
\* lowest empty foundation slot; otherwise the completion check changes
\* neither the column nor the foundations.
FoundationCompletion ==
    [][IsMoveStep =>
          LET t == call'.to
              dest == Transferred(call'.from, call'.index, t)
              n == Len(dest)
              last_13 == From(dest, n - NumRanks)
              k == CHOOSE j \in Slots :
                      foundations[j] = <<>> /\ \A i \in Slots : i < j => foundations[i] # <<>>
          IN  IF n >= NumRanks
                 /\ \A i \in 1 .. NumRanks :
                       Suit(last_13[i]) = Suit(last_13[1]) /\ Rank(last_13[i]) = NumRanks + 1 - i
              THEN (\E j \in Slots : foundations[j] = <<>>) =>
                      /\ Len(columns'[t]) <= n - NumRanks
                      /\ columns'[t] = Upto(dest, Len(columns'[t]))
                      /\ foundations'[k] = last_13
                      /\ \A j \in Slots : j < k => foundations'[j] = foundations[j]
              ELSE /\ columns'[t] = dest
                   /\ foundations' = foundations]_vars

FoundationCompletionWitness ==
    /\ call.name = "move_sequence"
    /\ foundations[0] # <<>>
    /\ foundations[1] = <<>>
    /\ Last(move_history).kind = "move"
    /\ Len(columns[call.to]) = LongPile - 1
    /\ undos = 0

\* C4: is_game_won() is True exactly when all 8 foundation slots hold 13
\* cards, and False whenever a slot is empty (spider_solitaire.py).
WinCondition ==
    /\ is_game_won(foundations) <=> \A k \in Slots : Len(foundations[k]) = NumRanks
    /\ (\E k \in Slots : foundations[k] = <<>>) => ~is_game_won(foundations)

WinConditionWitness ==
    /\ call.name = "move_sequence"
    /\ Len(foundations[0]) = NumRanks
    /\ foundations[1] = <<>>
    /\ ~is_game_won(foundations)

\* the cards i and i+1 of s continue a run: same suit, rank one lower
Continues(s, i) == Suit(s[i]) = Suit(s[i + 1]) /\ Rank(s[i]) = Rank(s[i + 1]) + 1

\* the longest prefix of a non-empty s that is a same-suit run descending by 1
LongestRun(s) ==
    LET n == CHOOSE k \in 1 .. Len(s) :
                /\ \A i \in 1 .. (k - 1) : Continues(s, i)
                /\ k < Len(s) => ~Continues(s, k)
    IN  SubSeq(s, 1, n)

\* the queried index holds a face-up card
AtFaceUpCard ==
    /\ call.index \in 0 .. (Len(columns[call.from]) - 1)
    /\ FaceUp(face_up, columns[call.from][call.index + 1])

\* C5: can_move_card returns True, and raises nothing, whenever the
\* destination is empty or holds only a placeholder, whatever the rank of
\* the (face-up) card at card_index.
EmptyDestinationAccepts ==
    (/\ call.name \in {"can_move_card", "can_move_card1"}
     /\ columns[call.to] \in {<<>>, <<WildCard>>}
     /\ AtFaceUpCard) => ret = "True"

\* C6: onto a real card, can_move_card is True exactly when
\* get_movable_sequence finds a run whose first card ranks one below the
\* destination's top card, and False otherwise; no suit enters into it.
RankRule ==
    (/\ call.name = "can_move_card"
     /\ columns[call.to] # <<>>
     /\ ~IsWildCard(Last(columns[call.to]))) =>
        LET run == get_movable_sequence(columns[call.from], call.index, face_up)
        IN  ret = IF run # <<>> /\ Rank(run[1]) = Rank(Last(columns[call.to])) - 1
                  THEN "True" ELSE "False"

RankRuleWitness ==
    /\ call.name = "can_move_card"
    /\ AtFaceUpCard
    /\ ret = "True"
    /\ Len(columns[call.from]) - call.index >= 2
    /\ columns[call.to] # <<>>
    /\ Suit(Last(columns[call.to])) = "Hearts"
    /\ Suit(columns[call.from][call.index + 1]) = "Spades"

\* C7: get_movable_sequence of spider_solitaire3.py returns [] for an index
\* out of bounds or a face-down card, the whole tail col[start_index:] when
\* every adjacent pair of the tail continues the run, and [] otherwise.
AllOrNothing ==
    call.name = "get_movable_sequence" =>
        LET tail == From(columns[call.from], call.index)
        IN  ret = IF ~AtFaceUpCard THEN <<>>
                  ELSE IF \A i \in 1 .. (Len(tail) - 1) : Continues(tail, i)
                       THEN tail ELSE <<>>

AllOrNothingWitness ==
    /\ call.name = "get_movable_sequence"
    /\ AtFaceUpCard
    /\ Len(columns[call.from]) - call.index = 3
    /\ Continues(From(columns[call.from], call.index), 1)
    /\ ~Continues(From(columns[call.from], call.index), 2)
    /\ ret = <<>>

\* C8 as stated: get_movable_sequence of spider_solitaire3.py returns, for a
\* face-up card, the longest prefix of col[start_index:] that is a same-suit
\* run descending by 1.
StopsAtFirstBreak ==
    (call.name = "get_movable_sequence" /\ AtFaceUpCard) =>
        ret = LongestRun(From(columns[call.from], call.index))

\* C8: get_movable_sequence of spider_solitaire.py returns [] for an index
\* out of bounds or a face-down card and, for a face-up card, the longest
\* prefix of col[start_index:] that is a same-suit run descending by 1.
StopsAtFirstBreak1 ==
    call.name = "get_movable_sequence1" =>
        ret = IF AtFaceUpCard THEN LongestRun(From(columns[call.from], call.index))
              ELSE <<>>

\* [9 of Spades (down), 8 of Spades, 7 of Spades, 6 of Hearts], queried at 1
StopsAtFirstBreak1Witness ==
    /\ call.name = "get_movable_sequence1"
    /\ columns[0] = <<9, 8, 7, 19>>
    /\ ~face_up[9] /\ face_up[8]
    /\ call.index = 1
    /\ ret = <<8, 7>>

\* C11: after move_sequence, the new top card of a source column that still
\* holds cards is face up, and no other card left in the source column has
\* changed its face-up flag.
SourceTopRevealed ==
    [][IsMoveStep =>
          LET rest == Upto(columns[call'.from], call'.index)
          IN  rest # <<>> =>
                 /\ columns'[call'.from] = rest
                 /\ FaceUp(face_up', Last(rest))
                 /\ \A i \in 1 .. (Len(rest) - 1) :
                       FaceUp(face_up', rest[i]) = FaceUp(face_up, rest[i])]_vars

\* the first move of a game has uncovered a card of the initial deal
SourceTopRevealedWitness ==
    /\ call.name = "move_sequence"
    /\ moves = 1
    /\ undos = 0
    /\ Len(columns[call.from]) < PileSize(call.from)
    /\ ~IsWildCard(Last(columns[call.from]))
    /\ face_up[Last(columns[call.from])]

\* C9: a move of a valid run takes exactly the cards from card_index on out
\* of the source and appends them, in order, to the destination (less its
\* placeholder); the other eight columns and the deck stay as they were.
\* (The source may be left holding a placeholder and the destination may
\* lose a completed run to a foundation, by the later steps of the move.)
MoveTransfersSlice ==
    [][(IsMoveStep
        /\ get_movable_sequence(columns[call'.from], call'.index, face_up) # <<>>) =>
          LET f == call'.from
              t == call'.to
              rest == Upto(columns[f], call'.index)
              dest == Transferred(f, call'.index, t)
          IN  /\ columns'[f] = IF rest = <<>> THEN <<WildCard>> ELSE rest
              /\ \/ columns'[t] = dest
                 \/ /\ Len(columns'[t]) <= Len(dest) - NumRanks
                    /\ columns'[t] = Upto(dest, Len(columns'[t]))
              /\ \A c \in Cols \ {f, t} : columns'[c] = columns[c]
              /\ deck' = deck]_vars

\* C10: a move called where run detection fails transfers the one card at
\* card_index and leaves every other card of the source where it was.
FallbackMovesOneCard ==
    [][(IsMoveStep
        /\ get_movable_sequence(columns[call'.from], call'.index, face_up) = <<>>) =>
          LET f == call'.from
              i == call'.index
              t == call'.to
              rest == Upto(columns[f], i) \o From(columns[f], i + 1)
          IN  /\ columns'[t] = Append(StripWildCard(columns[t]), columns[f][i + 1])
              /\ columns'[f] = IF rest = <<>> THEN <<WildCard>> ELSE rest]_vars

\* C12: when move_sequence returns, every one of the ten columns holds at
\* least one element, a card or a placeholder.
NoColumnLeftEmpty ==
    call.name = "move_sequence" => \A c \in Cols : columns[c] # <<>>

NoDealOntoEmptyColumn ==
    [][(IsDealStep /\ has_empty_column(columns)) =>
          /\ ret' = "False"
          /\ UNCHANGED <<deck, columns, deal_count>>]_vars

NoDealOntoEmptyColumnWitness ==
    /\ call.name = "deal_additional_row"
    /\ ret = "False"
    /\ has_empty_column(columns)
    /\ moves > 0

\* C15: undo_last_move with an empty history returns False and changes
\* neither columns, foundations, deck, face-up flags, counters nor history;
\* with a non-empty history it returns True and the history is its old self
\* less the last entry.
UndoReturns ==
    [][call'.name = "undo_last_move" =>
          IF move_history = <<>>
          THEN /\ ret' = "False"
               /\ UNCHANGED <<columns, foundations, deck, face_up, moves,
                              deal_count, move_history>>
          ELSE /\ ret' = "True"
               /\ move_history' = Upto(move_history, Len(move_history) - 1)]_vars

\* an undo refused after earlier undos emptied the history again
UndoReturnsWitness ==
    /\ call.name = "undo_last_move"
    /\ ret = "False"
    /\ undos > 0
    /\ deal_count > 0

\* C16: the undo of a move that had flipped the source column's new top card
\* face up turns that card face down again.  Stated for the undo of a game's
\* only move: a source top that lies among the cards dealt face down at
\* construction was flipped by that move.
UndoHidesFlippedCard ==
    [][(/\ call'.name = "undo_last_move"
        /\ ret' = "True"
        /\ moves = 1
        /\ move_history # <<>>
        /\ Last(move_history).kind = "move") =>
          LET from_col == columns[Last(move_history).from]
          IN  (/\ Len(from_col) < PileSize(Last(move_history).from)
               /\ ~IsWildCard(Last(from_col))) => ~face_up'[Last(from_col)]]_vars

\* C17: when the last history entry is a deal, undo_last_move removes from
\* each of the ten columns exactly its last card, which is the card that
\* deal put on the column; a column emptied by this holds a placeholder
\* afterwards.
UndoOfDeal ==
    [][(/\ call'.name = "undo_last_move"
        /\ move_history # <<>>
        /\ Last(move_history).kind = "deal") =>
          LET dealt_cards == Last(move_history).cards
          IN  \A i \in Cols :
                 /\ columns[i] # <<>>
                 /\ Last(columns[i]) = dealt_cards[i + 1]
                 /\ columns'[i] = IF Len(columns[i]) = 1 THEN <<WildCard>>
                                  ELSE Upto(columns[i], Len(columns[i]) - 1)]_vars

\* C18: every foundation slot is empty or holds exactly 13 cards of one suit
\* running King down to Ace, and no move, deal or undo changes a filled slot.
KingToAce(pile) ==
    /\ Len(pile) = NumRanks
    /\ \A i \in 1 .. Len(pile) :
          /\ Rank(pile[i]) = NumRanks + 1 - i
          /\ Suit(pile[i]) = Suit(pile[1])

FoundationsKeepRuns ==
    [][\A k \in Slots :
          /\ foundations[k] = <<>> \/ KingToAce(foundations[k])
          /\ foundations'[k] = <<>> \/ KingToAce(foundations'[k])
          /\ foundations[k] # <<>> => foundations'[k] = foundations[k]]_vars

FoundationsKeepRunsWitness ==
    /\ call.name = "undo_last_move"
    /\ undos = 1
    /\ deal_count = max_draws
    /\ Len(move_history) = max_draws + 1
    /\ move_history[max_draws].kind = "move"
    /\ move_history[max_draws + 1].kind = "move"
    /\ foundations[0] # <<>>

\* C19 (as claimed): after construction columns 0..3 hold 6 cards each and
\* columns 4..9 hold 5 each, 54 cards lie on the tableau and 50 are left in
\* the deck.
TableauSize ==
    Len(columns[0]) + Len(columns[1]) + Len(columns[2]) + Len(columns[3])
    + Len(columns[4]) + Len(columns[5]) + Len(columns[6]) + Len(columns[7])
    + Len(columns[8]) + Len(columns[9])

SixCardPilesFirst ==
    call.name = "new" =>
       /\ \A i \in 0 .. 3 : Len(columns[i]) = 6
       /\ \A i \in 4 .. 9 : Len(columns[i]) = 5
       /\ TableauSize = 54
       /\ Len(deck) = 50

\* C19 (amended): after construction columns 0..5 hold 5 cards each and
\* columns 6..9 hold 6 each, 54 cards lie on the tableau and 50 are left in
\* the deck.
FiveCardPilesFirst ==
    call.name = "new" =>
       /\ \A i \in 0 .. 5 : Len(columns[i]) = 5
       /\ \A i \in 6 .. 9 : Len(columns[i]) = 6
       /\ TableauSize = 54
       /\ Len(deck) = 50

FiveCardPilesFirstWitness ==
    /\ call.name = "new"
    /\ Len(columns[0]) < Len(columns[9])
    /\ Len(deck) < Len(ShuffleA)

\* C20: right after construction every column has exactly one face-up card,
\* its last one; the eight foundations are empty, moves and deal_count are 0
\* and the history is empty.
OneFaceUpPerColumn ==
    call.name = "new" =>
       /\ \A i \in Cols :
             /\ columns[i] # <<>>
             /\ \A k \in 1 .. Len(columns[i]) :
                   FaceUp(face_up, columns[i][k]) <=> k = Len(columns[i])
       /\ \A k \in 0 .. 7 : foundations[k] = <<>>
       /\ moves = 0
       /\ deal_count = 0
       /\ move_history = <<>>

OneFaceUpPerColumnWitness ==
    /\ call.name = "new"
    /\ \A i \in Cols : Len(columns[i]) > 1 /\ ~FaceUp(face_up, columns[i][1])
    /\ DOMAIN foundations = 0 .. 7

\* C21: a freshly constructed Deck of spider_solitaire3.py holds exactly 104
\* cards in which every pair of a rank in 1..13 and a suit in Spades, Hearts
\* appears exactly 4 times, and a shuffle changes only the order of the
\* cards, not how often each card is there.
Positions(cards, c) == {i \in 1 .. Len(cards) : cards[i] = c}

DeckIntegrity ==
    [][/\ call.name = "Deck" =>
             /\ Len(deck) = 104
             /\ \A r \in 1 .. 13, s \in {"Spades", "Hearts"} :
                   Cardinality({i \in 1 .. Len(deck) :
                                   Rank(deck[i]) = r /\ Suit(deck[i]) = s}) = 4
       /\ call'.name = "shuffle" =>
             /\ Len(deck') = Len(deck)
             /\ \A c \in Cards :
                   Cardinality(Positions(deck', c)) = Cardinality(Positions(deck, c))]_vars

DeckIntegrityWitness ==
    /\ call.name = "shuffle"
    /\ Len(trail) = 1
    /\ Len(deck) = 104
    /\ deck # trail[1].deck

\* C22: Deck.deal(n) with 0 <= n <= |deck| returns the first n cards of the
\* deck in deck order and leaves the other cards in their order: the deck
\* gets shorter by exactly n and no card is both returned and still in it.
DealTakesFront ==
    [][(call'.name = "deal" /\ call'.index >= 0 /\ call'.index <= Len(deck)) =>
          /\ ~ret'.raised
          /\ Len(ret'.dealt_cards) = call'.index
          /\ ret'.dealt_cards \o deck' = deck
          /\ Len(deck') = Len(deck) - call'.index
          /\ Range(ret'.dealt_cards) \cap Range(deck') = {}]_vars

DealTakesFrontWitness ==
    /\ call.name = "deal"
    /\ call.index = RowSize
    /\ Len(trail) = 2
    /\ trail[2].deck # trail[1].deck
    /\ Len(deck) > 0
    /\ ret.dealt_cards \o deck = trail[2].deck

\* C23 (as claimed): Deck.deal(n) with n greater than the number of cards
\* left is rejected with an error and leaves the deck as it was, in
\* spider_solitaire3.py and in spider_solitaire.py; it never returns cards.
DealRefusesShortDeck ==
    [][(call'.name \in {"deal", "deal1"} /\ call'.index > Len(deck)) =>
          /\ ret'.raised
          /\ ret'.dealt_cards = <<>>
          /\ deck' = deck]_vars

\* C23 (amended): in spider_solitaire3.py Deck.deal(n) with n greater than
\* the number of cards left raises ValueError and leaves the deck as it was.
DealRaisesValueError ==
    [][(call'.name = "deal" /\ call'.index > Len(deck)) =>
          /\ ret'.raised
          /\ ret'.dealt_cards = <<>>
          /\ deck' = deck]_vars

DealRaisesValueErrorWitness ==
    /\ call.name = "deal"
    /\ call.index = Len(deck) + 1
    /\ Len(deck) > 0
    /\ Len(deck) < NumCards
    /\ ret.raised

\* C24: in every state reached from a new game by move_sequence (called only
\* when can_move_card is true), deal_additional_row and undo_last_move, the
\* last element of every non-empty column is face up.
TopCardFaceUp ==
    \A i \in Cols : columns[i] # <<>> => FaceUp(face_up, Last(columns[i]))

\* C25: every move_sequence and every successful deal_additional_row appends
\* exactly one entry to move_history, a refused deal and the queries append
\* none, and undo_last_move removes the last entry and works on it (the
\* recorded cards go back on the source of a move, every column loses its
\* last card for a deal); so the history is as long as the number of moves
\* and deals made minus the number of undos that found an entry.
IsUndoStep == call'.name = "undo_last_move" /\ move_history # <<>>

HistoryDiscipline ==
    [][/\ IsMoveStep =>
             /\ Len(move_history') = Len(move_history) + 1
             /\ Upto(move_history', Len(move_history)) = move_history
             /\ Last(move_history').kind = "move"
       /\ (IsDealStep /\ ret' = "True") =>
             /\ Len(move_history') = Len(move_history) + 1
             /\ Upto(move_history', Len(move_history)) = move_history
             /\ Last(move_history').kind = "deal"
       /\ (IsDealStep /\ ret' # "True") => move_history' = move_history
       /\ call'.name \in {"get_movable_sequence", "can_move_card"} =>
             move_history' = move_history
       /\ IsUndoStep =>
             /\ ret' = "True"
             /\ Len(move_history') = Len(move_history) - 1
             /\ move_history' = Upto(move_history, Len(move_history) - 1)
             /\ LET last_move == Last(move_history)
                IN  IF last_move.kind = "move"
                    THEN columns'[last_move.from] =
                            columns[last_move.from] \o last_move.cards
                    ELSE \A i \in Cols :
                            /\ columns[i] # <<>>
                            /\ columns'[i] = IF Len(columns[i]) = 1 THEN <<WildCard>>
                                             ELSE Upto(columns[i], Len(columns[i]) - 1)
       /\ Len(move_history') = moves' + deal_count' - undos']_vars

HistoryDisciplineWitness ==
    /\ call.name = "deal_additional_row"
    /\ ret = "False"
    /\ moves > 1
    /\ undos > 1
    /\ move_history # <<>>
    /\ Last(move_history).kind = "move"

\* C26: in every reachable state the filled foundation slots are the slots
\* 0 .. k-1 for some k (no empty slot has a filled slot to its right), and a
\* completion fills slot k, the first empty one.
FilledSlots(fnd) == {k \in Slots : fnd[k] # <<>>}

Deck1Holds104 ==
    call.name = "Deck1" => Len(deck) = 104

\* C28: in spider_solitaire.py, in every state reached from a new game,
\* deal_additional_row returns False and deals no card, and deal_count stays
\* 0 for the whole game.
DrawNeverWorks ==
    [][/\ IsDealStep => ret' = "False" /\ UNCHANGED <<deck, columns, face_up>>
       /\ deal_count' = 0]_vars

DrawNeverWorksWitness ==
    /\ call.name = "deal_additional_row"
    /\ ret = "False"
    /\ ~has_empty_column(columns)
    /\ deck # <<>>
    /\ moves > 0

\* C29: in spider_solitaire.py a move accepted by can_move_card takes
\* exactly the run found at card_index: when that run does not reach the end
\* of the source column, move_sequence removes it from the middle of the
\* column and the cards that lay on top of it stay where they are.
RunTakenFromTheMiddle ==
    [][(call'.name = "move_sequence" /\ moves' = moves + 1) =>
          LET from_col == columns[call'.from]
              run == get_movable_sequence1(from_col, call'.index, face_up)
              above == From(from_col, call'.index + Len(run))
          IN  /\ run # <<>>
              /\ columns'[call'.from] = Upto(from_col, call'.index) \o above
              /\ foundations' = foundations =>
                    columns'[call'.to] = columns[call'.to] \o run]_vars

RunTakenFromTheMiddleWitness ==
    /\ call.name = "move_sequence"
    /\ Len(columns[call.from]) > call.index
    /\ FaceUp(face_up, Last(columns[call.from]))

\* C30: in every state reached by moves, deals and undos of
\* spider_solitaire3.py, the real cards in the deck, the ten columns and the
\* eight foundations together are the 104 original cards, each in exactly
\* one place.
RECURSIVE Flatten(_, _, _)
Flatten(piles, lo, hi) ==
    IF lo > hi THEN <<>> ELSE piles[lo] \o Flatten(piles, lo + 1, hi)

AllPiles == deck \o Flatten(columns, 0, 9) \o Flatten(foundations, 0, 7)

CardConservation ==
    \A c \in 1 .. 104 : Cardinality(Positions(AllPiles, c)) = 1

\* C35: in every state reached by move_sequence after a true can_move_card,
\* deal_additional_row and undo_last_move, no column is empty when
\* deal_additional_row reads its last element: the call returns True or
\* False and never stops halfway with some columns dealt to.
DealNeverAborts ==
    [][IsDealStep =>
          /\ deal_count < max_draws => \A i \in Cols : columns[i] # <<>>
          /\ ret' \in {"True", "False"}
          /\ ret' = "False" => UNCHANGED <<deck, columns>>]_vars

\* C31: the deck always holds 50 - 10 * deal_count cards with deal_count
\* between 0 and max_draws, so a deal that passes the quota check finds at
\* least 10 cards and never raises the insufficient-cards error, and undo
\* changes neither deal_count nor the deck.
DeckQuotaInvariant ==
    /\ Len(deck) = (NumCards - NumShortPiles * ShortPile
                      - (NumColumns - NumShortPiles) * LongPile)
                   - RowSize * deal_count
    /\ deal_count \in 0 .. max_draws
    /\ ret # "ValueError"

\* C32: in every state reached by moves that can_move_card accepted, deals
\* and undos, a WildCard lies in a column only as that column's sole
\* element, never under or on real cards, and never in a foundation.
PlaceholderAlone ==
    /\ \A i \in Cols : \A p \in 1 .. Len(columns[i]) :
          IsWildCard(columns[i][p]) => Len(columns[i]) = 1
    /\ \A k \in Slots : \A p \in 1 .. Len(foundations[k]) :
          ~IsWildCard(foundations[k][p])

\* C33: the moved_sequence recorded in the 'move' entry that move_sequence
\* appends is exactly the list of cards it transferred from the source to
\* the destination: same cards, same length, same order.
HistoryMatchesMove ==
    [][IsMoveStep =>
          LET entry == Last(move_history')
          IN  /\ entry.kind = "move"
              /\ entry.from = call'.from
              /\ entry.to = call'.to
              /\ entry.cards = From(columns[call'.from], call'.index)]_vars

\* C34: whenever can_move_card(from_col, card_index, to_col) returns True,
\* get_movable_sequence(from_col, card_index) is non-empty, so the cards a
\* following move_sequence transfers are all face up and form a descending
\* run of one suit; also when the destination holds a placeholder.
TrueMeansMovableRun ==
    [][(/\ IsMoveStep
        /\ can_move_card(columns[call'.from], call'.index, columns[call'.to],
                         face_up) = "True") =>
          LET moving_cards == From(columns[call'.from], call'.index)
          IN  /\ get_movable_sequence(columns[call'.from], call'.index,
                                      face_up) # <<>>
              /\ \A p \in 1 .. Len(moving_cards) : FaceUp(face_up, moving_cards[p])
              /\ \A p \in 1 .. (Len(moving_cards) - 1) :
                    /\ Suit(moving_cards[p]) = Suit(moving_cards[p + 1])
                    /\ Rank(moving_cards[p]) = Rank(moving_cards[p + 1]) + 1]_vars

\* C36: the game of spider_solitaire.py can be won: some state reached by
\* legal moves and deals has all 8 foundations filled. A slot is filled only
\* by 13 cards taken off a column, so the game can reach such a state only
\* while the filled slots and the runs of 13 that the cards still in the
\* deck and the columns could make add up to 8, from the new game on.
EightRunsWithinReach ==
    Cardinality(FilledSlots(foundations)) + ((Len(deck) + TableauSize) \div NumRanks)
        >= NumFoundations

====
